---- MODULE Spec2Model ----
(***************************************************************************)
(* Authentication and session-token lifecycle of the Tessiture back end:   *)
(* the User table, the token utilities, AuthRepository, AuthService and    *)
(* the UserRepository operations that write the email and password of a    *)
(* User row (createUser, updateById).                                      *)
(*                                                                         *)
(* Each service method is an operator from the table (and its arguments)   *)
(* to the table afterwards and the value returned or the error thrown; an  *)
(* action of Spec is one whole call, so Spec is the program under calls    *)
(* that do not overlap.  UserRepository.deleteById is left out: it only    *)
(* removes rows, and ids are not handed out again.                         *)
(*                                                                         *)
(* RaceSpec is the program under calls that overlap: an action is one      *)
(* awaited query of one call, and the queries of MaxCalls calls interleave *)
(* freely, starting from a table with one logged-in user.  RaceLive adds   *)
(* that every query is answered in the end.                                *)
(***************************************************************************)
EXTENDS Integers, FiniteSets, Sequences, TLC

\* ------------------------------------------------------------------ bounds
MaxUsers == 2      \* rows ever inserted into User (AUTO_INCREMENT ids 1..MaxUsers)
MaxTicks == 1      \* number of clock advances explored
MaxCalls == 2      \* calls whose queries interleave

\* ------------------------------------------------------- program constants
AccessTTL == 900          \* expiresIn: '15m'
RefreshTTL == 604800      \* expiresIn: '7d'
BcryptRounds == 10        \* bcrypt.hash(password, 10)
DefaultRolId == 1         \* rolId || 1

\* ------------------------------------------------------------------ inputs
\* An email is a sequence of characters, so that toLowerCase is computed
\* character by character.
Emails == { <<"u", "@", "x">>, <<"U", "@", "X">>, <<"v", "@", "x">> }
Passwords == { "pw1", "pw2" }
Salts == { "s1" }         \* the salt bcrypt draws
RolIds == { 2 }           \* a role other than the default one
Undefined == 0            \* an absent rolId in the request body (falsy)

\* String.prototype.toLowerCase on one character / on a string
LowerChar(c) ==
    CASE c = "U" -> "u"
      [] c = "V" -> "v"
      [] c = "X" -> "x"
      [] OTHER -> c

toLowerCase(s) == [i \in 1..Len(s) |-> LowerChar(s[i])]

\* ------------------------------------------------------------------ tokens
\* A JWT is determined by its payload, its iat/exp and the signing secret
\* (HS256 is deterministic): equal fields give the same token string.
NoEmail == << >>
NULL == [secret |-> "NULL", id |-> 0, email |-> NoEmail, rolId |-> 0, iat |-> 0, exp |-> 0]

generateAccessToken(user, now) ==
    [secret |-> "JWT_SECRET", id |-> user.id, email |-> user.email,
     rolId |-> user.rolId, iat |-> now, exp |-> now + AccessTTL]

\* generateRefreshToken signing the email only, without the user's id
generateRefreshToken_EmailOnly(user, now) ==
    [secret |-> "JWT_REFRESH_SECRET", id |-> 0, email |-> user.email,
     rolId |-> 0, iat |-> now, exp |-> now + RefreshTTL]

generateRefreshToken(user, now) ==
    [secret |-> "JWT_REFRESH_SECRET", id |-> user.id, email |-> user.email,
     rolId |-> 0, iat |-> now, exp |-> now + RefreshTTL]

\* jwt.verify called with the access secret
jwtVerifyRefresh_AccessSecret(token, now) ==
    IF token.secret # "JWT_SECRET" THEN "JsonWebTokenError"
    ELSE IF now >= token.exp THEN "TokenExpiredError"
    ELSE "ok"

\* jwt.verify(token, JWT_REFRESH_SECRET): the signature first, then expiry
\* (expired when the clock has reached exp).
jwtVerifyRefresh(token, now) ==
    IF token.secret # "JWT_REFRESH_SECRET" THEN "JsonWebTokenError"
    ELSE IF now >= token.exp THEN "TokenExpiredError"
    ELSE "ok"

\* ----------------------------------------------------------------- bcrypt
bcryptHash(password, salt) ==
    [alg |-> "bcrypt", cost |-> BcryptRounds, salt |-> salt, digest |-> password]

bcryptCompare(password, hash) == hash = bcryptHash(password, hash.salt)

\* ------------------------------------------------------------------- state
VARIABLES
    User,       \* the User table: id -> row
    nextId,     \* AUTO_INCREMENT counter of the User table
    clock,      \* floor(Date.now() / 1000)
    ticks,      \* clock advances so far
    last,       \* the call that completed last, with its outcome
    revoked,    \* ids whose session a logout ended and who have not logged in since
    inflight    \* calls that have started and await a store query: call -> progress

vars == <<User, nextId, clock, ticks, last, revoked, inflight>>

\* ------------------------------------------------------------ the User table
Row(id, email, password, rolId, refreshToken) ==
    [id |-> id, email |-> email, password |-> password, rolId |-> rolId,
     refreshToken |-> refreshToken]

NoUser == Row(0, NoEmail, NULL, 0, NULL)

\* rows.length ? rows[0] : null, the rows of a SELECT taken in primary-key order
FirstRow(rows, ids) ==
    IF ids = {} THEN NoUser
    ELSE rows[CHOOSE i \in ids : \A j \in ids : i <= j]

\* findByEmail comparing the email as given, without lower-casing it
FindByEmail_CaseSensitive(rows, email) ==
    FirstRow(rows, {i \in DOMAIN rows : rows[i].email = email})

\* AuthRepository.findByEmail / UserRepository.findByEmail
FindByEmail(rows, email) ==
    FirstRow(rows, {i \in DOMAIN rows : rows[i].email = toLowerCase(email)})

\* UserRepository.findById
FindById(rows, id) ==
    FirstRow(rows, {i \in DOMAIN rows : i = id})

\* findUserByRefreshToken looking the user up by the id claim of the token
\* instead of by the stored value
FindUserByRefreshToken_ByClaim(rows, token) ==
    FirstRow(rows, {i \in DOMAIN rows :
                       /\ rows[i].refreshToken # NULL
                       /\ rows[i].id = token.id})

\* AuthRepository.findUserByRefreshToken (NULL = ? is never true in SQL)
FindUserByRefreshToken(rows, token) ==
    FirstRow(rows, {i \in DOMAIN rows :
                       /\ rows[i].refreshToken # NULL
                       /\ rows[i].refreshToken = token})

\* saveRefreshToken whose UPDATE matches no row
SaveRefreshToken_NoRow(rows, userId, token) == rows

\* saveRefreshToken whose UPDATE has no WHERE clause
SaveRefreshToken_AllRows(rows, userId, token) ==
    [i \in DOMAIN rows |-> [rows[i] EXCEPT !.refreshToken = token]]

\* AuthRepository.saveRefreshToken: UPDATE ... WHERE id = ?
SaveRefreshToken(rows, userId, token) ==
    [i \in DOMAIN rows |->
        IF i = userId THEN [rows[i] EXCEPT !.refreshToken = token] ELSE rows[i]]

\* clearRefreshToken whose UPDATE matches no row
ClearRefreshToken_NoRow(rows, userId) == rows

\* clearRefreshToken whose UPDATE has no WHERE clause
ClearRefreshToken_AllRows(rows, userId) ==
    [i \in DOMAIN rows |-> [rows[i] EXCEPT !.refreshToken = NULL]]

\* AuthRepository.clearRefreshToken: UPDATE ... SET refreshToken = NULL WHERE id = ?
ClearRefreshToken(rows, userId) ==
    [i \in DOMAIN rows |->
        IF i = userId THEN [rows[i] EXCEPT !.refreshToken = NULL] ELSE rows[i]]

\* INSERT INTO User (email, password, rolId): the slot column defaults to NULL
InsertUser(rows, id, email, password, rolId) ==
    [i \in DOMAIN rows \cup {id} |->
        IF i = id THEN Row(id, email, password, rolId, NULL) ELSE rows[i]]

\* ---------------------------------------------------------------- outcomes
\* What a call hands back: a result (ok) or a thrown error (name, message),
\* and the HTTP status the controller / errorHandler pair answers with.
NoToken == NULL

\* errorHandler: an error carrying statusCode keeps its status and message,
\* any other error is answered 500 "Internal Server Error".
errorHandler(err) ==
    IF err.statusCode # 0
    THEN [status |-> err.statusCode, message |-> err.message]
    ELSE [status |-> 500, message |-> "Internal Server Error"]

\* new Error(message) and the library errors: none of them carries statusCode
Error(name, message) == [name |-> name, message |-> message, statusCode |-> 0]

NoError == [name |-> "none", message |-> "none", statusCode |-> 0]

Thrown(err) ==
    [ok |-> FALSE, error |-> err, http |-> errorHandler(err),
     id |-> 0, email |-> NoEmail, accessToken |-> NoToken,
     refreshToken |-> NoToken, user |-> NoUser, message |-> "none"]

Returned(status, id, email, accessToken, refreshToken, user, message) ==
    [ok |-> TRUE, error |-> NoError, http |-> [status |-> status, message |-> message],
     id |-> id, email |-> email, accessToken |-> accessToken,
     refreshToken |-> refreshToken, user |-> user, message |-> message]

\* A call's effect: the table afterwards and what the caller gets.
Effect(rows, out) == [rows |-> rows, out |-> out]

\* ------------------------------------------------------------- AuthService
\* Auth.service.js requires bcryptjs, jsonwebtoken and the token utilities
\* only: the identifier `pool` used by register is bound nowhere in the file.
poolInScope == FALSE

\* AuthService.register: the duplicate check, the hash, then the INSERT
\* through `pool`; evaluating the unbound identifier throws ReferenceError
\* before any query is sent.
register(rows, email, password, rolId, salt, insertId) ==
    IF FindByEmail(rows, email) # NoUser
    THEN Effect(rows, Thrown(Error("Error", "Email already in use")))
    ELSE LET hashedPassword == bcryptHash(password, salt) IN
         IF ~poolInScope
         THEN Effect(rows, Thrown(Error("ReferenceError", "pool is not defined")))
         ELSE Effect(InsertUser(rows, insertId, toLowerCase(email), hashedPassword,
                                IF rolId = Undefined THEN DefaultRolId ELSE rolId),
                     Returned(201, insertId, email, NoToken, NoToken, NoUser, "none"))

\* login telling an unknown email apart from a wrong password
login_TellsApart(rows, email, password, now) ==
    LET user == FindByEmail(rows, email) IN
    IF user = NoUser
    THEN Effect(rows, Thrown(Error("Error", "User not found")))
    ELSE IF ~bcryptCompare(password, user.password)
    THEN Effect(rows, Thrown(Error("Error", "Invalid credentials")))
    ELSE LET accessToken == generateAccessToken(user, now)
             refreshTok == generateRefreshToken(user, now)
         IN  Effect(SaveRefreshToken(rows, user.id, refreshTok),
                    Returned(200, 0, NoEmail, accessToken, refreshTok,
                             Row(user.id, user.email, NULL, user.rolId, NULL),
                             "Login successful"))

\* login answering with the whole stored row as user
login_WholeRow(rows, email, password, now) ==
    LET user == FindByEmail(rows, email) IN
    IF user = NoUser
    THEN Effect(rows, Thrown(Error("Error", "Invalid credentials")))
    ELSE IF ~bcryptCompare(password, user.password)
    THEN Effect(rows, Thrown(Error("Error", "Invalid credentials")))
    ELSE LET accessToken == generateAccessToken(user, now)
             refreshTok == generateRefreshToken(user, now)
         IN  Effect(SaveRefreshToken(rows, user.id, refreshTok),
                    Returned(200, 0, NoEmail, accessToken, refreshTok,
                             user, "Login successful"))

\* AuthService.login
login(rows, email, password, now) ==
    LET user == FindByEmail(rows, email) IN
    IF user = NoUser
    THEN Effect(rows, Thrown(Error("Error", "Invalid credentials")))
    ELSE IF ~bcryptCompare(password, user.password)
    THEN Effect(rows, Thrown(Error("Error", "Invalid credentials")))
    ELSE LET accessToken == generateAccessToken(user, now)
             refreshTok == generateRefreshToken(user, now)
         IN  Effect(SaveRefreshToken(rows, user.id, refreshTok),
                    Returned(200, 0, NoEmail, accessToken, refreshTok,
                             Row(user.id, user.email, NULL, user.rolId, NULL),
                             "Login successful"))

\* refreshToken that never verifies the token it found in a slot
refreshToken_NoVerify(rows, oldToken, now) ==
    LET user == FindUserByRefreshToken(rows, oldToken) IN
    IF user = NoUser
    THEN Effect(rows, Thrown(Error("Error", "Invalid refresh token")))
    ELSE LET accessToken == generateAccessToken(user, now)
             newRefreshToken == generateRefreshToken(user, now)
         IN  Effect(SaveRefreshToken(rows, user.id, newRefreshToken),
                    Returned(200, 0, NoEmail, accessToken, newRefreshToken,
                             NoUser, "none"))

\* refreshToken that saves the new token before it verifies the old one
refreshToken_SaveBeforeVerify(rows, oldToken, now) ==
    LET user == FindUserByRefreshToken(rows, oldToken) IN
    IF user = NoUser
    THEN Effect(rows, Thrown(Error("Error", "Invalid refresh token")))
    ELSE LET accessToken == generateAccessToken(user, now)
             newRefreshToken == generateRefreshToken(user, now)
             saved == SaveRefreshToken(rows, user.id, newRefreshToken)
         IN  IF jwtVerifyRefresh(oldToken, now) # "ok"
             THEN Effect(saved, Thrown(Error(jwtVerifyRefresh(oldToken, now),
                                             "jwt expired")))
             ELSE Effect(saved,
                         Returned(200, 0, NoEmail, accessToken, newRefreshToken,
                                  NoUser, "none"))

\* AuthService.refreshToken
refreshToken(rows, oldToken, now) ==
    LET user == FindUserByRefreshToken(rows, oldToken) IN
    IF user = NoUser
    THEN Effect(rows, Thrown(Error("Error", "Invalid refresh token")))
    ELSE IF jwtVerifyRefresh(oldToken, now) # "ok"
    THEN Effect(rows, Thrown(Error(jwtVerifyRefresh(oldToken, now),
                                   IF jwtVerifyRefresh(oldToken, now) = "TokenExpiredError"
                                   THEN "jwt expired" ELSE "invalid signature")))
    ELSE LET accessToken == generateAccessToken(user, now)
             newRefreshToken == generateRefreshToken(user, now)
         IN  Effect(SaveRefreshToken(rows, user.id, newRefreshToken),
                    Returned(200, 0, NoEmail, accessToken, newRefreshToken,
                             NoUser, "none"))

\* AuthService.logout
logout(rows, userId) ==
    Effect(ClearRefreshToken(rows, userId),
           Returned(200, 0, NoEmail, NoToken, NoToken, NoUser,
                    "Logged out successfully"))

\* ---------------------------------------------------------- UserRepository
\* UserRepository.createUser: the new row gets the next AUTO_INCREMENT id
createUser(rows, email, password, rolId, salt, insertId) ==
    LET emailToLower == toLowerCase(email) IN
    IF FindByEmail(rows, emailToLower) # NoUser
    THEN Effect(rows, Thrown(Error("Error", "Email already in use")))
    ELSE LET hashedPassword == bcryptHash(password, salt)
             inserted == InsertUser(rows, insertId, emailToLower, hashedPassword, rolId)
         IN  Effect(inserted,
                    Returned(201, insertId, emailToLower, NoToken, NoToken,
                             FindById(inserted, insertId), "none"))

\* updateById that also ends the user's session
updateById_EndsSession(rows, id, email, password, salt) ==
    IF FindById(rows, id) = NoUser
    THEN Effect(rows, Thrown(Error("Error", "User not found")))
    ELSE LET emailToLower == toLowerCase(email)
             hashedPassword == bcryptHash(password, salt)
             updated == [i \in DOMAIN rows |->
                            IF i = id
                            THEN [rows[i] EXCEPT !.email = emailToLower,
                                                 !.password = hashedPassword,
                                                 !.refreshToken = NULL]
                            ELSE rows[i]]
         IN  Effect(updated,
                    Returned(200, id, emailToLower, NoToken, NoToken,
                             FindById(updated, id), "none"))

\* UserRepository.updateById
updateById(rows, id, email, password, salt) ==
    IF FindById(rows, id) = NoUser
    THEN Effect(rows, Thrown(Error("Error", "User not found")))
    ELSE LET emailToLower == toLowerCase(email)
             hashedPassword == bcryptHash(password, salt)
             updated == [i \in DOMAIN rows |->
                            IF i = id
                            THEN [rows[i] EXCEPT !.email = emailToLower,
                                                 !.password = hashedPassword]
                            ELSE rows[i]]
         IN  Effect(updated,
                    Returned(200, id, emailToLower, NoToken, NoToken,
                             FindById(updated, id), "none"))

\* ---------------------------------------------------------- AuthController
\* A request body may lack email or password: the fields of req.body reach
\* the service as they are, undefined ones included.
NoPassword == "undefined"
Bodies == [email : Emails \cup {NoEmail}, password : Passwords \cup {NoPassword}]

\* AuthRepository.findByEmail evaluates email.toLowerCase() before it queries:
\* with an undefined email it throws TypeError and the SELECT is never sent.
findByEmailQueries(email) == email # NoEmail

UndefinedEmail ==
    Error("TypeError", "Cannot read properties of undefined (reading 'toLowerCase')")

\* AuthController.register: no check of the body; bcrypt.hash rejects a
\* password that is not a string, after findByEmail has read the store.
AuthController_register(rows, body, salt, insertId) ==
    IF body.email = NoEmail
    THEN Effect(rows, Thrown(UndefinedEmail))
    ELSE IF body.password = NoPassword /\ FindByEmail(rows, body.email) = NoUser
    THEN Effect(rows, Thrown(Error("Error", "Illegal arguments: undefined, number")))
    ELSE register(rows, body.email, body.password, Undefined, salt, insertId)

\* AuthController.login: no check of the body; bcrypt.compare rejects a
\* password that is not a string, after findByEmail has read the store.
AuthController_login(rows, body, now) ==
    IF body.email = NoEmail
    THEN Effect(rows, Thrown(UndefinedEmail))
    ELSE IF body.password = NoPassword /\ FindByEmail(rows, body.email) # NoUser
    THEN Effect(rows, Thrown(Error("Error", "Illegal arguments: undefined, string")))
    ELSE login(rows, body.email, body.password, now)

\* ----------------------------------------------------------------- actions
UserIds == 1..MaxUsers

\* the call that completed last: which operation and what it handed back;
\* displaced is the slot value a successful login, refreshToken or logout took
\* out of the slot; for register, key is the normalized email it was given and
\* again tells whether the call right before it was a register of that email
Call(op, out, displaced, key, again) ==
    [op |-> op, out |-> out, displaced |-> displaced, key |-> key, again |-> again]

NoCall == Call("none", Thrown(NoError), NULL, NoEmail, FALSE)

\* A call in progress: its operation and arguments, where it stands (pc), the
\* row its first query read, and what it will hand or has handed back.
CallIds == 1..MaxCalls

Progress(op, pc, email, password, token, user, out) ==
    [op |-> op, pc |-> pc, email |-> email, password |-> password,
     token |-> token, user |-> user, out |-> out]

Idle == Progress("none", "idle", NoEmail, "none", NULL, NoUser, Thrown(NoError))

Init ==
    /\ User = << >>
    /\ nextId = 1
    /\ clock = 0
    /\ ticks = 0
    /\ last = NoCall
    /\ revoked = {}
    /\ inflight = [c \in CallIds |-> Idle]

\* time passes: by a second, or by a refresh token's lifetime
Deltas == {1, RefreshTTL}

Tick ==
    /\ ticks < MaxTicks
    /\ \E d \in Deltas : clock' = clock + d
    /\ ticks' = ticks + 1
    /\ UNCHANGED <<inflight, User, nextId, last, revoked>>

\* the instants the clock can have shown up to now
RECURSIVE After(_)
After(k) ==
    IF k = 0 THEN {0}
    ELSE After(k - 1) \cup {n + d : n \in After(k - 1), d \in Deltas}

Instants == {n \in After(MaxTicks) : n <= clock}

LowerEmails == {toLowerCase(e) : e \in Emails}

\* every refresh token the service can have minted by now: for an id the
\* table has handed out, an email a row can hold, an instant up to now
Minted ==
    {generateRefreshToken(Row(i, e, NULL, 0, NULL), n) :
        i \in 1..(nextId - 1), e \in LowerEmails, n \in Instants}

MintedAccess ==
    {generateAccessToken(Row(i, e, NULL, r, NULL), n) :
        i \in 1..(nextId - 1), e \in LowerEmails, r \in RolIds, n \in Instants}

\* what a client can present as a refresh token: a refresh token of the
\* service, the same claims signed with another key, or an access token
Forged(t) == [t EXCEPT !.secret = "other"]

Presentable == Minted \cup {Forged(t) : t \in Minted} \cup MintedAccess

Register ==
    \E email \in Emails, password \in Passwords, rolId \in RolIds \cup {Undefined},
       salt \in Salts :
        LET eff == register(User, email, password, rolId, salt, nextId) IN
        /\ eff.rows = User \/ nextId <= MaxUsers
        /\ User' = eff.rows
        /\ nextId' = IF eff.rows = User THEN nextId ELSE nextId + 1
        /\ last' = Call("register", eff.out, NULL, toLowerCase(email),
                        last.op = "register" /\ last.key = toLowerCase(email))
        /\ UNCHANGED <<inflight, clock, ticks, revoked>>

Login ==
    \E email \in Emails, password \in Passwords :
        LET eff == login(User, email, password, clock)
            user == FindByEmail(User, email)
        IN
        /\ User' = eff.rows
        /\ last' = Call("login", eff.out,
                        IF eff.out.ok THEN user.refreshToken ELSE NULL, NoEmail, FALSE)
        /\ revoked' = IF eff.out.ok THEN revoked \ {user.id} ELSE revoked
        /\ UNCHANGED <<inflight, nextId, clock, ticks>>

RefreshToken ==
    \E oldToken \in Presentable :
        LET eff == refreshToken(User, oldToken, clock) IN
        /\ User' = eff.rows
        /\ last' = Call("refresh", eff.out,
                        IF eff.out.ok THEN oldToken ELSE NULL, NoEmail, FALSE)
        /\ UNCHANGED <<inflight, nextId, clock, ticks, revoked>>

Logout ==
    \E userId \in UserIds :
        LET eff == logout(User, userId) IN
        /\ User' = eff.rows
        /\ last' = Call("logout", eff.out, FindById(User, userId).refreshToken,
                        NoEmail, FALSE)
        /\ revoked' = IF FindById(User, userId).refreshToken # NULL
                      THEN revoked \cup {userId} ELSE revoked
        /\ UNCHANGED <<inflight, nextId, clock, ticks>>

CreateUser ==
    \E email \in Emails, password \in Passwords, rolId \in RolIds, salt \in Salts :
        LET eff == createUser(User, email, password, rolId, salt, nextId) IN
        /\ eff.rows = User \/ nextId <= MaxUsers
        /\ User' = eff.rows
        /\ nextId' = IF eff.rows = User THEN nextId ELSE nextId + 1
        /\ last' = Call("createUser", eff.out, NULL, NoEmail, FALSE)
        /\ UNCHANGED <<inflight, clock, ticks, revoked>>

UpdateById ==
    \E id \in UserIds, email \in Emails, password \in Passwords, salt \in Salts :
        LET eff == updateById(User, id, email, password, salt) IN
        /\ User' = eff.rows
        /\ last' = Call("updateById", eff.out, NULL, NoEmail, FALSE)
        /\ UNCHANGED <<inflight, nextId, clock, ticks, revoked>>

Next ==
    \/ Tick
    \/ Register
    \/ Login
    \/ RefreshToken
    \/ Logout
    \/ CreateUser
    \/ UpdateById

Spec == Init /\ [][Next]_vars

\* ------------------------------------------------------- interleaved calls
\* A service method is a sequence of awaited store queries; between two of
\* them any other call may run. Each action below is one query of one call
\* together with the synchronous code that follows its answer.

\* The table the races start from: one user, created and logged in at second 0.
SeedEmail == <<"u", "@", "x">>
SeedPassword == "pw1"
SeedRolId == 2
SeedSalt == "s1"

Seeded ==
    login(createUser(<< >>, SeedEmail, SeedPassword, SeedRolId, SeedSalt, 1).rows,
          SeedEmail, SeedPassword, 0).rows

RaceInit ==
    /\ User = Seeded
    /\ nextId = 2
    /\ clock = 0
    /\ ticks = 0
    /\ last = NoCall
    /\ revoked = {}
    /\ inflight = [c \in CallIds |-> Idle]

\* the refresh tokens a client holds: the one login handed out at second 0 and
\* whatever the slots hold now
Held == {Seeded[1].refreshToken} \cup
        {User[i].refreshToken : i \in {j \in DOMAIN User : User[j].refreshToken # NULL}}

Advance(c, p) ==
    /\ inflight' = [inflight EXCEPT ![c] = p]
    /\ UNCHANGED <<nextId, clock, ticks, last, revoked>>

\* refreshToken up to its second await: the lookup is answered, the token is
\* verified and the new pair is signed; the UPDATE is still to be sent
RefreshFind(c) ==
    /\ inflight[c].pc = "idle"
    /\ \E oldToken \in Held :
          LET eff == refreshToken(User, oldToken, clock) IN
          Advance(c, Progress("refresh", IF eff.out.ok THEN "save" ELSE "done",
                              NoEmail, "none", oldToken,
                              FindUserByRefreshToken(User, oldToken), eff.out))
    /\ UNCHANGED User

\* refreshToken's UPDATE held back until no other call is between its queries
RefreshSave_AfterOthers(c) ==
    /\ inflight[c].op = "refresh" /\ inflight[c].pc = "save"
    /\ \A d \in CallIds \ {c} : inflight[d].pc \in {"idle", "done"}
    /\ User' = SaveRefreshToken(User, inflight[c].user.id, inflight[c].out.refreshToken)
    /\ Advance(c, [inflight[c] EXCEPT !.pc = "done"])

\* refreshToken's saveRefreshToken(user.id, newRefreshToken), then the return
RefreshSave(c) ==
    /\ inflight[c].op = "refresh" /\ inflight[c].pc = "save"
    /\ User' = SaveRefreshToken(User, inflight[c].user.id, inflight[c].out.refreshToken)
    /\ Advance(c, [inflight[c] EXCEPT !.pc = "done"])

\* login up to its second await: findByEmail is answered
LoginFind(c) ==
    /\ inflight[c].pc = "idle"
    /\ \E email \in Emails, password \in Passwords :
          LET user == FindByEmail(User, email) IN
          Advance(c, Progress("login", IF user = NoUser THEN "done" ELSE "compare",
                              email, password, NULL, user,
                              login(User, email, password, clock).out))
    /\ UNCHANGED User

\* login up to its third await: bcrypt.compare has answered and, on a match,
\* the pair is signed from the row read before
LoginCompare(c) ==
    /\ inflight[c].op = "login" /\ inflight[c].pc = "compare"
    /\ LET user == inflight[c].user
           read == [i \in {user.id} |-> user]
           eff  == login(read, inflight[c].email, inflight[c].password, clock)
       IN  Advance(c, [inflight[c] EXCEPT !.pc = IF eff.out.ok THEN "save" ELSE "done",
                                          !.out = eff.out])
    /\ UNCHANGED User

\* login's saveRefreshToken(user.id, refreshToken), then the return
LoginSave(c) ==
    /\ inflight[c].op = "login" /\ inflight[c].pc = "save"
    /\ User' = SaveRefreshToken(User, inflight[c].user.id, inflight[c].out.refreshToken)
    /\ Advance(c, [inflight[c] EXCEPT !.pc = "done"])

\* logout: its one query, clearRefreshToken, then the return
LogoutClear(c) ==
    /\ inflight[c].pc = "idle"
    /\ \E userId \in DOMAIN User :
          LET eff == logout(User, userId) IN
          /\ User' = eff.rows
          /\ Advance(c, Progress("logout", "done", NoEmail, "none", NULL,
                                 FindById(User, userId), eff.out))

\* createUser up to its second await: findByEmail is answered
CreateUserFind(c) ==
    /\ inflight[c].pc = "idle"
    /\ \E email \in Emails, password \in Passwords :
          LET eff == createUser(User, email, password, SeedRolId, SeedSalt, nextId) IN
          Advance(c, Progress("createUser", IF eff.out.ok THEN "insert" ELSE "done",
                              email, password, NULL, NoUser, eff.out))
    /\ UNCHANGED User

\* createUser's INSERT (the hash computed before it), then the return
CreateUserInsert(c) ==
    /\ inflight[c].op = "createUser" /\ inflight[c].pc = "insert"
    /\ LET emailToLower == toLowerCase(inflight[c].email)
           inserted == InsertUser(User, nextId, emailToLower,
                                  bcryptHash(inflight[c].password, SeedSalt), SeedRolId)
       IN  /\ User' = inserted
           /\ nextId' = nextId + 1
           /\ inflight' = [inflight EXCEPT ![c] =
                  [@ EXCEPT !.pc = "done",
                            !.out = Returned(201, nextId, emailToLower, NoToken, NoToken,
                                             FindById(inserted, nextId), "none")]]
    /\ UNCHANGED <<clock, ticks, last, revoked>>

\* register up to its second await: findByEmail is answered
RegisterFind(c) ==
    /\ inflight[c].pc = "idle"
    /\ \E email \in Emails, password \in Passwords :
          LET eff == register(User, email, password, Undefined, SeedSalt, nextId)
              inUse == FindByEmail(User, email) # NoUser
          IN  Advance(c, Progress("register", IF inUse THEN "done" ELSE "insert",
                                  email, password, NULL, NoUser, eff.out))
    /\ UNCHANGED User

\* register's INSERT (the hash computed before it): the statement names pool
RegisterInsert(c) ==
    /\ inflight[c].op = "register" /\ inflight[c].pc = "insert"
    /\ IF poolInScope
       THEN /\ User' = InsertUser(User, nextId, toLowerCase(inflight[c].email),
                                  bcryptHash(inflight[c].password, SeedSalt), DefaultRolId)
            /\ nextId' = nextId + 1
            /\ inflight' = [inflight EXCEPT ![c] =
                   [@ EXCEPT !.pc = "done",
                             !.out = Returned(201, nextId, inflight[c].email, NoToken,
                                              NoToken, NoUser, "none")]]
       ELSE /\ UNCHANGED <<User, nextId>>
            /\ inflight' = [inflight EXCEPT ![c] =
                   [@ EXCEPT !.pc = "done",
                             !.out = Thrown(Error("ReferenceError", "pool is not defined"))]]
    /\ UNCHANGED <<clock, ticks, last, revoked>>

\* the next query of call c
Step(c) ==
    \/ RefreshFind(c)
    \/ RefreshSave(c)
    \/ LoginFind(c)
    \/ LoginCompare(c)
    \/ LoginSave(c)
    \/ LogoutClear(c)
    \/ CreateUserFind(c)
    \/ CreateUserInsert(c)
    \/ RegisterFind(c)
    \/ RegisterInsert(c)

RaceNext ==
    \/ Tick
    \/ \E c \in CallIds : Step(c)

RaceSpec == RaceInit /\ [][RaceNext]_vars

\* Every query submitted to the pool is answered in the end (the pool queues
\* what it cannot serve at once): a call that can take its next step takes it.
RaceLive == RaceSpec /\ \A c \in CallIds : WF_vars(Step(c))

\* ------------------------------------------------------------------ routes
\* applyRoutes: the routers app.use attaches, each under its prefix
Mounts ==
    { [prefix |-> "/api/v1/roles",      router |-> "RoleRoutes"],
      [prefix |-> "/api/v1/status",     router |-> "StatusRoutes"],
      [prefix |-> "/api/v1/categories", router |-> "CategoryRoutes"],
      [prefix |-> "/api/v1/users",      router |-> "UserRoutes"],
      [prefix |-> "/api/v1/articles",   router |-> "ArticleRoutes"],
      [prefix |-> "/api/v1/logs",       router |-> "LogsRoutes"],
      [prefix |-> "/api/v1/authors",    router |-> "AuthorRoutes"],
      [prefix |-> "/api/v1/podcasts",   router |-> "PodcastRoutes"],
      [prefix |-> "/api/v1/books",      router |-> "BookRoutes"] }

\* Auth.route.js: the POST routes of the auth router and, for each, the
\* functions the router runs in order
AuthRoutes ==
    { [path |-> "/register", chain |-> <<"AuthController.register">>],
      [path |-> "/login",    chain |-> <<"AuthController.login">>],
      [path |-> "/refresh",  chain |-> <<"AuthController.refresh">>],
      [path |-> "/logout",   chain |-> <<"authMiddleware", "AuthController.logout">>] }

\* the prefixes a client may try: the mounted ones and the expected auth ones
Prefixes == {m.prefix : m \in Mounts} \cup {"/api/v1/auth", "/api/v1", ""}

NotFound == << >>

\* What the application runs for POST prefix + path: the chain of the auth
\* route if the auth router is attached under the prefix, otherwise nothing of
\* the auth router (Express answers 404, or another router takes the request).
dispatch(prefix, path) ==
    IF \E m \in Mounts : m.prefix = prefix /\ m.router = "AuthRoutes"
    THEN LET matching == {r \in AuthRoutes : r.path = path} IN
         IF matching = {} THEN NotFound ELSE (CHOOSE r \in matching : TRUE).chain
    ELSE NotFound

\* ------------------------------------------------------------------ claims
\* refreshToken(t) would succeed now
Accepts(t) == refreshToken(User, t, clock).out.ok

\* C1. Rotation: once refreshToken(t0) has succeeded, a following
\* refreshToken(t0) fails, t0 being no longer the slot value.
C1_Rotation ==
    (last.op = "refresh" /\ last.out.ok) => ~Accepts(last.displaced)

\* C2. Revocation: after logout(userId), every refresh token minted for that
\* user is rejected by refreshToken, until the user logs in again.
C2_Revocation ==
    \A u \in revoked : \A t \in Minted : t.id = u => ~Accepts(t)

\* a logout has just ended a session whose token is still unexpired
C2_Witness ==
    /\ last.op = "logout"
    /\ last.displaced # NULL
    /\ last.displaced.id \in revoked
    /\ jwtVerifyRefresh(last.displaced, clock) = "ok"

\* the tokens refreshToken accepts on behalf of user u
AcceptedFor(u) ==
    {t \in Presentable : Accepts(t) /\ FindUserByRefreshToken(User, t).id = u}

\* C3. Single live refresh token: for every user at most one refresh-token
\* value is accepted by refreshToken at any time.
C3_SingleLiveToken ==
    \A u \in DOMAIN User : Cardinality(AcceptedFor(u)) <= 1

\* a refresh has rotated the slot while the old token is still unexpired:
\* two well-signed, unexpired tokens of one user exist and one is accepted
C3_Witness ==
    /\ last.op = "refresh"
    /\ last.out.ok
    /\ last.displaced # last.out.refreshToken
    /\ jwtVerifyRefresh(last.displaced, clock) = "ok"
    /\ AcceptedFor(last.displaced.id) = {last.out.refreshToken}

\* C4. Single session per user: a successful login over a slot holding t_old
\* overwrites the slot, and a following refreshToken(t_old) fails.
C4_LoginSupersedes ==
    (last.op = "login" /\ last.out.ok /\ last.displaced # NULL)
        => ~Accepts(last.displaced)
FailedAuthCall == last.op \in {"register", "login", "refresh"} /\ ~last.out.ok

C6_NoHalfAppliedFailure ==
    [][(clock' = clock /\ FailedAuthCall') => (User' = User /\ nextId' = nextId)]_vars

\* a refresh failed verification and the slot still holds the expired token
C6_Witness ==
    /\ last.op = "refresh"
    /\ last.out.error.name = "TokenExpiredError"
    /\ \E i \in DOMAIN User :
          /\ User[i].refreshToken # NULL
          /\ jwtVerifyRefresh(User[i].refreshToken, clock) = "TokenExpiredError"

UnknownEmail(e) == FindByEmail(User, e) = NoUser

WrongPassword(e, p) ==
    /\ FindByEmail(User, e) # NoUser
    /\ ~bcryptCompare(p, FindByEmail(User, e).password)

\* C7. Generic login failure: login with an unknown email and login with a
\* registered email and a wrong password fail with the same error kind and
\* message, and reach the client as the same response.
C7_GenericLoginFailure ==
    \A e1 \in Emails, e2 \in Emails, p1 \in Passwords, p2 \in Passwords :
        (UnknownEmail(e1) /\ WrongPassword(e2, p2)) =>
            /\ ~login(User, e1, p1, clock).out.ok
            /\ login(User, e1, p1, clock).out = login(User, e2, p2, clock).out

\* a login has failed in a store where both kinds of failure are possible
C7_Witness ==
    /\ last.op = "login"
    /\ ~last.out.ok
    /\ \E e1 \in Emails, e2 \in Emails, p2 \in Passwords :
          UnknownEmail(e1) /\ WrongPassword(e2, p2)

\* C8. Uniqueness: register called twice in sequence with the same email in
\* any letter case: the second call fails with the conflict error and exactly
\* one User row holds the lower-cased email afterwards.
C8_RegisterTwice ==
    (last.op = "register" /\ last.again) =>
        /\ ~last.out.ok
        /\ last.out.error.message = "Email already in use"
        /\ Cardinality({i \in DOMAIN User : User[i].email = last.key}) = 1

\* C9. Email invariant: every stored email is lower case and no two User
\* rows have emails equal after lower-casing.
C9_EmailInvariant ==
    /\ \A i \in DOMAIN User : User[i].email = toLowerCase(User[i].email)
    /\ \A i \in DOMAIN User, j \in DOMAIN User :
          i # j => toLowerCase(User[i].email) # toLowerCase(User[j].email)

\* C10. Case-insensitive login: for emails differing only in letter case and
\* the same password, login with one succeeds iff login with the other does.
C10_CaseInsensitiveLogin ==
    \A e1 \in Emails, e2 \in Emails, p \in Passwords :
        toLowerCase(e1) = toLowerCase(e2) =>
            (login(User, e1, p, clock).out.ok <=> login(User, e2, p, clock).out.ok)

\* a login has succeeded in a store where an email in another letter case
\* than the stored one logs in
C10_Witness ==
    /\ last.op = "login"
    /\ last.out.ok
    /\ \E e \in Emails, p \in Passwords :
          /\ toLowerCase(e) # e
          /\ login(User, e, p, clock).out.ok

\* a register call made with an email that no row holds
FreshRegister == clock' = clock /\ last'.op = "register"
                   /\ FindByEmail(User, last'.key) = NoUser

\* C11. Register success: register with an email not yet registered
\* succeeds (201), adds exactly one row, with the lower-cased email and a hash
\* as password, and returns the id given to that row.
C11_RegisterSucceeds ==
    [][FreshRegister =>
          /\ last'.out.ok
          /\ last'.out.http.status = 201
          /\ last'.out.id \notin DOMAIN User
          /\ DOMAIN User' = DOMAIN User \cup {last'.out.id}
          /\ \A i \in DOMAIN User : User'[i] = User[i]
          /\ User'[last'.out.id].email = last'.key
          /\ User'[last'.out.id].password.alg = "bcrypt"]_vars

\* C12. Registration does not log in: right after register the new user
\* exists with an empty slot, the response carries no token, and no
\* refreshToken call succeeds for that user.
C12_RegisterNoSession ==
    [][FreshRegister =>
          /\ FindByEmail(User', last'.key) # NoUser
          /\ FindByEmail(User', last'.key).refreshToken = NULL
          /\ last'.out.accessToken = NoToken
          /\ last'.out.refreshToken = NoToken
          /\ \A t \in Presentable' :
                refreshToken(User', t, clock').out.ok =>
                    FindUserByRefreshToken(User', t).email # last'.key]_vars
\* a login or refreshToken call has just returned a refresh token
ReturnedToken == last.op \in {"login", "refresh"} /\ last.out.ok

\* the slot of the user the returned token was minted for holds that token
SlotHoldsReturned ==
    FindById(User, last.out.refreshToken.id).refreshToken = last.out.refreshToken

\* login answers with the id, email and rolId of the stored user, nothing else
LoginProjection ==
    last.op = "login" =>
        LET u == FindById(User, last.out.user.id) IN
        /\ u # NoUser
        /\ last.out.user = Row(u.id, u.email, NULL, u.rolId, NULL)

TextsOf(out) == {out.error.name, out.error.message, out.message,
                 out.http.message}

Leaks(out, password, hashes) ==
    \/ password \in TextsOf(out)
    \/ out.user.password \in hashes

StoredHashes == {User[i].password : i \in DOMAIN User}

\* C14. Credential secrecy: whatever register or login answers, value or
\* error, shows neither the raw password submitted nor a stored password hash
\* (nor the hash register computed).
C14_CredentialSecrecy ==
    \A e \in Emails, p \in Passwords :
        /\ ~Leaks(login(User, e, p, clock).out, p, StoredHashes)
        /\ \A r \in RolIds \cup {Undefined}, s \in Salts :
              ~Leaks(register(User, e, p, r, s, nextId).out, p,
                     StoredHashes \cup {bcryptHash(p, s)})

C14_Witness ==
    /\ last.op = "login" /\ last.out.ok
    /\ FindById(User, last.out.user.id).password \in StoredHashes
    /\ last.out.user.password = NULL

\* C15. Logout is total and idempotent: logout(userId) succeeds for every id,
\* leaves that user's slot empty, changes nothing when no user has the id, and
\* a second logout(userId) leaves the result of the first as it is.
C15_LogoutTotalIdempotent ==
    \A u \in UserIds :
        LET once  == logout(User, u)
            twice == logout(once.rows, u)
        IN  /\ once.out.ok
            /\ once.out.http.status = 200
            /\ u \in DOMAIN User => once.rows[u].refreshToken = NULL
            /\ u \notin DOMAIN User => once.rows = User
            /\ twice = once

\* a logout that found the slot already empty, after a logout that emptied one
C15_Witness ==
    /\ last.op = "logout"
    /\ last.out.ok
    /\ last.displaced = NULL
    /\ \E u \in revoked : User[u].refreshToken = NULL
\* C16. Secret separation: refreshToken accepts no token minted by
\* generateAccessToken, whatever the slots hold, even a slot holding that very
\* token; only a token signed with the refresh secret passes the verification.
C16_SecretSeparation ==
    /\ \A t \in MintedAccess :
          /\ ~Accepts(t)
          /\ \A i \in DOMAIN User :
                ~refreshToken(SaveRefreshToken(User, i, t), t, clock).out.ok
    /\ \A t \in Presentable :
          jwtVerifyRefresh(t, clock) = "ok" => t.secret = "JWT_REFRESH_SECRET"

\* a refreshToken call was refused while a user holds a session and an access
\* token of that user is still within its lifetime
C16_Witness ==
    /\ last.op = "refresh"
    /\ ~last.out.ok
    /\ \E i \in DOMAIN User, t \in MintedAccess :
          /\ User[i].refreshToken # NULL
          /\ t.id = i
          /\ clock < t.exp
\* C17. Rotation yields a distinct token: a successful refreshToken(t)
\* returns a refresh token other than t, also when the call falls in the clock
\* second in which t was minted.
C17_DistinctRotatedToken ==
    (last.op = "refresh" /\ last.out.ok) =>
        last.out.refreshToken # last.displaced
\* C18. End-to-end scenario: for an email not yet registered, register
\* answers 201, login with the same credentials answers 200 with an access
\* and a refresh token that differ, refreshToken with that refresh token
\* answers 200 with a new pair, logout answers 200, and refreshToken with the
\* rotated token then answers 401.
C18_Scenario ==
    \A e \in Emails, p \in Passwords, s \in Salts :
        (FindByEmail(User, e) = NoUser /\ nextId <= MaxUsers) =>
            LET reg   == register(User, e, p, Undefined, s, nextId)
                log   == login(reg.rows, e, p, clock)
                rot   == refreshToken(log.rows, log.out.refreshToken, clock)
                out   == logout(rot.rows, reg.out.id)
                again == refreshToken(out.rows, rot.out.refreshToken, clock)
            IN  /\ reg.out.http.status = 201
                /\ log.out.http.status = 200
                /\ log.out.accessToken # log.out.refreshToken
                /\ rot.out.http.status = 200
                /\ rot.out.accessToken # NoToken
                /\ rot.out.refreshToken # NoToken
                /\ out.out.http.status = 200
                /\ again.out.http.status = 401
\* C19. Status mapping: a failed login and a failed refreshToken reach the
\* client as 401, a register refused for a duplicate email as 400 or 409,
\* and none of them as 500.
C19_StatusMapping ==
    /\ (last.op \in {"login", "refresh"} /\ ~last.out.ok) =>
          last.out.http.status = 401
    /\ (last.op = "register"
          /\ last.out.error.message = "Email already in use") =>
          last.out.http.status \in {400, 409}
\* a body lacking email or password
Incomplete(body) == body.email = NoEmail \/ body.password = NoPassword

\* the answer the claim asks for: ValidationError, 400, the store neither
\* read nor changed
Rejected(eff, body) ==
    /\ ~eff.out.ok
    /\ eff.out.error.name = "ValidationError"
    /\ eff.out.http.status = 400
    /\ ~findByEmailQueries(body.email)
    /\ eff.rows = User

\* C20. Validation: a register or login request whose email or password is
\* missing is rejected with ValidationError (400) before any store read or
\* write, and the store is unchanged.
C20_Validation ==
    \A body \in Bodies :
        Incomplete(body) =>
            /\ Rejected(AuthController_login(User, body, clock), body)
            /\ \A s \in Salts :
                  Rejected(AuthController_register(User, body, s, nextId), body)

\* the AuthController handler that serves each session operation
HandlerOf(op) ==
    CASE op = "register" -> "AuthController.register"
      [] op = "login"    -> "AuthController.login"
      [] op = "refresh"  -> "AuthController.refresh"
      [] op = "logout"   -> "AuthController.logout"
      [] OTHER           -> "none"

\* C21. HTTP surface: the handler of every register, login, refresh and
\* logout request is reached through the mounted route table: under some
\* prefix POST /register, /login, /refresh and /logout each run the matching
\* AuthController handler, and /logout runs the bearer-token gate before it.
C21_HttpSurface ==
    HandlerOf(last.op) # "none" =>
        \E prefix \in Prefixes, r \in AuthRoutes :
            /\ dispatch(prefix, r.path) = r.chain
            /\ r.chain[Len(r.chain)] = HandlerOf(last.op)
            /\ last.op = "logout" => r.chain[1] = "authMiddleware"

\* call c has completed
Done(c) == inflight[c].pc = "done"

\* calls a and b are two completed refreshToken calls that presented the same
\* token, one that has not expired
RacedRefreshes(a, b) ==
    /\ a # b
    /\ inflight[a].op = "refresh" /\ Done(a)
    /\ inflight[b].op = "refresh" /\ Done(b)
    /\ inflight[a].token = inflight[b].token
    /\ jwtVerifyRefresh(inflight[a].token, clock) = "ok"

\* call c did not get back the very token it presented (as a call does that
\* falls in the second in which that token was minted)
Rotated(c) ==
    inflight[c].out.ok => inflight[c].out.refreshToken # inflight[c].token

\* C22. Atomic rotation under a race: of two refreshToken calls that
\* presented the same token, whatever the order of their queries, at most one
\* succeeds; the other fails with the error of a token that is not the slot
\* value. (Stated for calls made after the second in which the token was
\* minted.)
C22_AtomicRotation ==
    \A a \in CallIds, b \in CallIds :
        (RacedRefreshes(a, b) /\ Rotated(a) /\ Rotated(b)) =>
            \E c \in {a, b} :
                /\ ~inflight[c].out.ok
                /\ inflight[c].out.error.message = "Invalid refresh token"

\* the refresh tokens handed back by those of calls a and b that succeeded
ReturnedBy(a, b) == {inflight[c].out.refreshToken : c \in {x \in {a, b} : inflight[x].out.ok}}

\* C23. Racing refreshes stay safe: once two refreshToken calls that
\* presented the same valid token t have both completed, in whatever order
\* their queries ran, the slot holds one of the refresh tokens they returned,
\* t is rejected by a later refreshToken, and no token but the slot value is
\* accepted for that user.
C23_RacingRefreshesSafe ==
    \A a \in CallIds, b \in CallIds :
        (RacedRefreshes(a, b) /\ ReturnedBy(a, b) # {}) =>
            LET t == inflight[a].token
                u == t.id
            IN  /\ User[u].refreshToken \in ReturnedBy(a, b)
                /\ ~Accepts(t)
                /\ \A x \in Presentable :
                      (Accepts(x) /\ FindUserByRefreshToken(User, x).id = u) =>
                          x = User[u].refreshToken

\* calls a and b are two completed register / createUser calls whose emails
\* are equal after lower-casing
RacedRegistrations(a, b) ==
    /\ a # b
    /\ inflight[a].op \in {"register", "createUser"} /\ Done(a)
    /\ inflight[b].op \in {"register", "createUser"} /\ Done(b)
    /\ toLowerCase(inflight[a].email) = toLowerCase(inflight[b].email)

\* the rows holding the email as the table stores it
RowsWith(email) == {i \in DOMAIN User : User[i].email = toLowerCase(email)}

\* C24. Registration check-and-insert is one unit: of two register /
\* createUser calls with emails equal after lower-casing, whatever the order
\* of their queries, at most one inserts a row, and never more than one row
\* holds that email.
C24_CheckAndInsert ==
    \A a \in CallIds, b \in CallIds :
        RacedRegistrations(a, b) =>
            /\ ~(inflight[a].out.ok /\ inflight[b].out.ok)
            /\ Cardinality(RowsWith(inflight[a].email)) <= 1

\* a step that is a whole login, refreshToken or logout call
SessionCall == clock' = clock /\ last'.op \in {"login", "refresh", "logout"}

\* the user a session call is for: the one login authenticated, or the holder
\* of the token that refreshToken or logout took out of the slot
SubjectOf(call) ==
    IF call.op = "login"
    THEN IF call.out.ok THEN {call.out.user.id} ELSE {}
    ELSE {i \in DOMAIN User : call.displaced # NULL /\ User[i].refreshToken = call.displaced}

\* C25. Frame of session operations: a login, refreshToken or logout for
\* user u creates and deletes no User, changes no id, email, password hash or
\* role, and changes no slot but that of u.
C25_SessionFrame ==
    [][SessionCall =>
          /\ DOMAIN User' = DOMAIN User
          /\ nextId' = nextId
          /\ \A i \in DOMAIN User :
                [User'[i] EXCEPT !.refreshToken = User[i].refreshToken] = User[i]
          /\ Cardinality(SubjectOf(last')) <= 1
          /\ \A i \in DOMAIN User :
                User'[i].refreshToken # User[i].refreshToken => i \in SubjectOf(last')]_vars

\* a login has written the slot of one user while another user holds a session
C25_Witness ==
    /\ last.op = "login" /\ last.out.ok
    /\ User[last.out.user.id].refreshToken = last.out.refreshToken
    /\ \E i \in DOMAIN User :
          i # last.out.user.id /\ User[i].refreshToken # NULL

\* call c has started and awaits the answer to a query
Awaiting(c) == inflight[c].pc \notin {"idle", "done"}

\* C26. Termination: every started register, login, refreshToken, logout or
\* createUser call completes in the end, with a result or an error, given that
\* every query is answered in the end; and no call waits on another: a call
\* awaiting an answer can always take its next step.
C26_Termination ==
    /\ \A c \in CallIds : Awaiting(c) ~> Done(c)
    /\ [](\A c \in CallIds : Awaiting(c) => ENABLED Step(c))

\* a call has completed with a result while another one awaits an answer
C26_Witness ==
    \E a \in CallIds, b \in CallIds :
        /\ Done(a) /\ inflight[a].out.ok /\ inflight[a].op = "refresh"
        /\ Awaiting(b)

\* call a is a completed logout of user u and call b a completed refreshToken
\* that presented the token u's slot held
LogoutRacedRefresh(a, b, u) ==
    /\ inflight[a].op = "logout" /\ Done(a) /\ inflight[a].user.id = u
    /\ inflight[b].op = "refresh" /\ Done(b)
    /\ inflight[b].user.id = u

\* C27. Logout is not undone by an in-flight refresh: once logout(u) and a
\* refreshToken call presenting u's current token have both completed, in
\* whatever order their queries ran, u's slot is empty and the refresh token
\* that call returned, if any, is rejected by a later refreshToken.
C27_LogoutNotUndone ==
    \A a \in CallIds, b \in CallIds, u \in DOMAIN User :
        LogoutRacedRefresh(a, b, u) =>
            /\ User[u].refreshToken = NULL
            /\ inflight[b].out.ok => ~Accepts(inflight[b].out.refreshToken)

\* call a is a completed successful login of user u and call b a completed
\* refreshToken that presented the token u's slot held before that login
\* wrote it
LoginRacedRefresh(a, b, u) ==
    /\ inflight[a].op = "login" /\ Done(a) /\ inflight[a].out.ok
    /\ inflight[a].user.id = u
    /\ inflight[b].op = "refresh" /\ Done(b)
    /\ inflight[b].token = inflight[a].user.refreshToken

\* C28. A new login is not overwritten by a refresh of the superseded
\* session: once a successful login of u and a refreshToken call presenting
\* u's earlier token have both completed, in whatever order their queries
\* ran, the slot holds the refresh token login returned.
C28_LoginNotOverwritten ==
    \A a \in CallIds, b \in CallIds, u \in DOMAIN User :
        LoginRacedRefresh(a, b, u) =>
            User[u].refreshToken = inflight[a].out.refreshToken

\* C29. Slot ownership: a slot that is not empty holds a refresh token the
\* service minted for the user of that slot (its id claim is that user's id),
\* and no two users' slots hold the same token, so findUserByRefreshToken
\* matches at most one row.
C29_SlotOwnership ==
    \A i \in DOMAIN User :
        User[i].refreshToken # NULL =>
            /\ User[i].refreshToken \in Minted
            /\ User[i].refreshToken.id = i
            /\ \A j \in DOMAIN User \ {i} :
                  User[j].refreshToken # User[i].refreshToken
            /\ {k \in DOMAIN User : User[k].refreshToken = User[i].refreshToken} = {i}

\* two users hold a session each, and each token finds its own user
C29_Witness ==
    \E i \in DOMAIN User, j \in DOMAIN User :
        /\ i # j
        /\ User[i].refreshToken # NULL
        /\ User[j].refreshToken # NULL
        /\ FindUserByRefreshToken(User, User[i].refreshToken).id = i
        /\ FindUserByRefreshToken(User, User[j].refreshToken).id = j

\* C30. Credential update leaves the session untouched: updateById(id,
\* {email, password}) changes the email and the password hash of that user
\* and nothing else, the slot included, so a refresh token that refreshToken
\* accepted before the update is accepted after it.
C30_UpdateKeepsSession ==
    \A id \in DOMAIN User, e \in Emails, p \in Passwords, s \in Salts :
        LET eff == updateById(User, id, e, p, s) IN
        /\ eff.out.ok
        /\ DOMAIN eff.rows = DOMAIN User
        /\ \A i \in DOMAIN User \ {id} : eff.rows[i] = User[i]
        /\ [eff.rows[id] EXCEPT !.email = User[id].email,
                                !.password = User[id].password] = User[id]
        /\ \A i \in DOMAIN User :
              Accepts(User[i].refreshToken) =>
                  refreshToken(eff.rows, User[i].refreshToken, clock).out.ok

\* an update has changed the email of a user whose session is still accepted
C30_Witness ==
    /\ last.op = "updateById" /\ last.out.ok
    /\ User[last.out.id].refreshToken # NULL
    /\ User[last.out.id].refreshToken.email # User[last.out.id].email
    /\ Accepts(User[last.out.id].refreshToken)

====
